---- MODULE Spec2Model ----
(***************************************************************************)
(* A model of script.js: the footer year block, the Leaflet map block with *)
(* its fetch continuation, the escapeHtml helper and the service-form      *)
(* submit listener.                                                        *)
(*                                                                         *)
(* Strings are sequences of one-character strings.  Two characters are     *)
(* written as tokens: "U+0060" is the grave accent and "U+2014" the em     *)
(* dash of the subject line.                                               *)
(***************************************************************************)
EXTENDS Integers, Sequences, FiniteSets, TLC

VARIABLES
    escIn,       \* the argument of a call of escapeHtml
    escOut,      \* what the call returned
    escPc,       \* "ready" before the call, "returned" after it
    hasMapEl,    \* the page has an element with id work-map
    leaflet,     \* the global L is defined
    mapPc,       \* "load", "fetching", "settled" or "skipped"
    mapCreated,  \* L.map was called
    tileLayers,  \* the tile layers added to the map
    fetchCount,  \* the calls of fetch
    fetched,     \* what the fetch delivered
    markers,     \* the markers on the map, in the order they were added
    view,        \* the last view the map was given
    viewCalls,   \* the calls of setView and fitBounds, in order
    console,     \* the console warnings, in order
    now,         \* the clock: a calendar year and a month
    hasYear,     \* the page has an element with id year
    yearText,    \* that element's textContent
    footerPc,    \* "load" before the footer block has run, "done" after
    fields,      \* the value of each control of the service form (null: no such control)
    formAction,  \* form.action
    submitEv,    \* the submit event dispatched since the last edit, if any
    lastAccepted \* the form data of the most recent submit that passed validation

escVars == <<escIn, escOut, escPc>>

mapVars == <<hasMapEl, leaflet, mapPc, mapCreated, tileLayers, fetchCount, fetched,
             markers, view, viewCalls, console>>

footerVars == <<now, hasYear, yearText, footerPc>>

formVars == <<fields, formAction, submitEv, lastAccepted>>

vars == <<escVars, mapVars, footerVars, formVars>>

(***************************************************************************)
(* Bounds of the model.                                                    *)
(***************************************************************************)
MaxEscLen == 3

MaxPoints == 2

MaxYear == 2027

(***************************************************************************)
(* JavaScript values.  Every value is a record of the same shape: t is the *)
(* type, k the kind of a number ("finite", "NaN", "Infinity"), n the value *)
(* of a finite number or of a boolean (1/0), s the text of a string.       *)
(***************************************************************************)
JStr(s) == [t |-> "string", k |-> "", n |-> 0, s |-> s]
JNum(n) == [t |-> "number", k |-> "finite", n |-> n, s |-> <<>>]
JNaN == [t |-> "number", k |-> "NaN", n |-> 0, s |-> <<>>]
JInfinity == [t |-> "number", k |-> "Infinity", n |-> 0, s |-> <<>>]
JBool(b) == [t |-> "boolean", k |-> "", n |-> IF b THEN 1 ELSE 0, s |-> <<>>]
JNull == [t |-> "null", k |-> "", n |-> 0, s |-> <<>>]
JUndefined == [t |-> "undefined", k |-> "", n |-> 0, s |-> <<>>]
JObject == [t |-> "object", k |-> "", n |-> 0, s |-> <<>>]

\* The strings over an alphabet, up to a length.
StringsUpTo(chars, n) == UNION {[1..m -> chars] : m \in 0..n}

\* The decimal digits of a natural number.
DigitChar(d) ==
    CASE d = 0 -> "0" [] d = 1 -> "1" [] d = 2 -> "2" [] d = 3 -> "3"
      [] d = 4 -> "4" [] d = 5 -> "5" [] d = 6 -> "6" [] d = 7 -> "7"
      [] d = 8 -> "8" [] d = 9 -> "9"

RECURSIVE NatToString(_)
NatToString(n) ==
    IF n < 10 THEN <<DigitChar(n)>>
    ELSE NatToString(n \div 10) \o <<DigitChar(n % 10)>>

\* ToBoolean: what `x || y` and `!x` test.
ToBoolean(v) ==
    CASE v.t = "string" -> v.s # <<>>
      [] v.t = "number" -> v.k = "Infinity" \/ (v.k = "finite" /\ v.n # 0)
      [] v.t = "boolean" -> v.n = 1
      [] v.t = "object" -> TRUE
      [] OTHER -> FALSE

\* x || y
JsOr(x, y) == IF ToBoolean(x) THEN x ELSE y

\* String(x)
JsString(v) ==
    CASE v.t = "string" -> v.s
      [] v.t = "number" /\ v.k = "NaN" -> <<"N", "a", "N">>
      [] v.t = "number" /\ v.k = "Infinity" ->
            <<"I", "n", "f", "i", "n", "i", "t", "y">>
      [] v.t = "number" /\ v.k = "finite" ->
            IF v.n < 0 THEN <<"-">> \o NatToString(0 - v.n) ELSE NatToString(v.n)
      [] v.t = "boolean" ->
            IF v.n = 1 THEN <<"t", "r", "u", "e">> ELSE <<"f", "a", "l", "s", "e">>
      [] v.t = "null" -> <<"n", "u", "l", "l">>
      [] v.t = "undefined" -> <<"u", "n", "d", "e", "f", "i", "n", "e", "d">>
      [] OTHER -> <<"[", "o", "b", "j", "e", "c", "t", " ", "O", "b", "j", "e", "c", "t", "]">>

(***************************************************************************)
(* The initial values of the state, and each part of the page at rest.     *)
(***************************************************************************)
\* What r.json() can resolve to: an array, null, 0, a number, an object.
Points(t, items) == [t |-> t, items |-> items]

ClockStart == [year |-> 2025, month |-> 11]

FieldNames == {"name", "phone", "email", "address", "message"}

\* form.action before any submit: the attribute the page gives the form.
InitialAction == <<"#">>

NoEvent == [kind |-> "none", alerts |-> 0, prevented |-> FALSE]

NoData == [f \in FieldNames |-> JNull]

NoView == [kind |-> "none", center |-> <<>>, zoom |-> 0, bounds |-> <<>>, padding |-> <<>>]

NotFetched == [outcome |-> "none", points |-> Points("null", <<>>)]

EscapeUnused ==
    /\ escIn = JUndefined
    /\ escOut = <<>>
    /\ escPc = "unused"

MapUnused ==
    /\ hasMapEl = FALSE
    /\ leaflet = FALSE
    /\ mapPc = "unused"
    /\ mapCreated = FALSE
    /\ tileLayers = 0
    /\ fetchCount = 0
    /\ fetched = NotFetched
    /\ markers = <<>>
    /\ view = NoView
    /\ viewCalls = <<>>
    /\ console = <<>>

FooterUnused ==
    /\ now = ClockStart
    /\ hasYear = FALSE
    /\ yearText = <<>>
    /\ footerPc = "unused"

FormUnused ==
    /\ fields = NoData
    /\ formAction = InitialAction
    /\ submitEv = NoEvent
    /\ lastAccepted = [any |-> FALSE, data |-> NoData]

(***************************************************************************)
(* escapeHtml                                                              *)
(***************************************************************************)
\* A variant of the class below that leaves the grave accent out.
EscapeClassDropsGrave == {"&", "<", ">", "\"", "'", "=", "/"}

\* The character class of the regular expression of escapeHtml:
\* & < > " ' grave accent = and /.
EscapeClass == {"&", "<", ">", "\"", "'", "U+0060", "=", "/"}

\* A variant of the table below with the entities of < and > exchanged.
EntityTableSwapsLtGt(s) ==
    CASE s = "&" -> <<"&", "a", "m", "p", ";">>
      [] s = "<" -> <<"&", "g", "t", ";">>
      [] s = ">" -> <<"&", "l", "t", ";">>
      [] s = "\"" -> <<"&", "q", "u", "o", "t", ";">>
      [] s = "'" -> <<"&", "#", "3", "9", ";">>
      [] s = "/" -> <<"&", "#", "x", "2", "F", ";">>
      [] s = "U+0060" -> <<"&", "#", "x", "6", "0", ";">>
      [] s = "=" -> <<"&", "#", "x", "3", "D", ";">>

\* The object literal the replacer looks the matched character up in.
EntityTable(s) ==
    CASE s = "&" -> <<"&", "a", "m", "p", ";">>
      [] s = "<" -> <<"&", "l", "t", ";">>
      [] s = ">" -> <<"&", "g", "t", ";">>
      [] s = "\"" -> <<"&", "q", "u", "o", "t", ";">>
      [] s = "'" -> <<"&", "#", "3", "9", ";">>
      [] s = "/" -> <<"&", "#", "x", "2", "F", ";">>
      [] s = "U+0060" -> <<"&", "#", "x", "6", "0", ";">>
      [] s = "=" -> <<"&", "#", "x", "3", "D", ";">>

\* String.prototype.replace with a global regular expression and a replacer:
\* every match is replaced, everything else is copied.
RECURSIVE ReplaceAll(_)
ReplaceAll(str) ==
    IF str = <<>> THEN <<>>
    ELSE (IF Head(str) \in EscapeClass THEN EntityTable(Head(str)) ELSE <<Head(str)>>)
         \o ReplaceAll(Tail(str))

escapeHtml(str) == ReplaceAll(JsString(JsOr(str, JStr(<<>>))))

(***************************************************************************)
(* Number(x) and String.prototype.trim                                     *)
(***************************************************************************)
\* The white space trim removes (of the characters the model uses).
WhiteSpace == {" ", "\n", "\t"}

RECURSIVE TrimStart(_)
TrimStart(s) ==
    IF s # <<>> /\ Head(s) \in WhiteSpace THEN TrimStart(Tail(s)) ELSE s

RECURSIVE TrimEnd(_)
TrimEnd(s) ==
    IF s # <<>> /\ s[Len(s)] \in WhiteSpace THEN TrimEnd(SubSeq(s, 1, Len(s) - 1)) ELSE s

trim(s) == TrimEnd(TrimStart(s))

Digits == {"0", "1", "2", "3", "4", "5", "6", "7", "8", "9"}

DigitValue(c) == CHOOSE d \in 0..9 : DigitChar(d) = c

RECURSIVE DigitsValue(_)
DigitsValue(s) ==
    IF s = <<>> THEN 0
    ELSE 10 * DigitsValue(SubSeq(s, 1, Len(s) - 1)) + DigitValue(s[Len(s)])

IsDigits(s) == s # <<>> /\ \A i \in 1..Len(s) : s[i] \in Digits

\* Number(string): white space is trimmed, the empty string is 0, a decimal
\* integer (with an optional sign) is its value, "Infinity" is Infinity and
\* anything else is NaN.  Fractions, exponents and radix prefixes are not
\* among the strings the model feeds it.
StringToNumber(s) ==
    LET t == trim(s) IN
    IF t = <<>> THEN JNum(0)
    ELSE IF IsDigits(t) THEN JNum(DigitsValue(t))
    ELSE IF Head(t) = "-" /\ IsDigits(Tail(t)) THEN JNum(0 - DigitsValue(Tail(t)))
    ELSE IF Head(t) = "+" /\ IsDigits(Tail(t)) THEN JNum(DigitsValue(Tail(t)))
    ELSE IF t = <<"I", "n", "f", "i", "n", "i", "t", "y">> THEN JInfinity
    ELSE JNaN

\* Number(x)
ToNumber(v) ==
    CASE v.t = "number" -> v
      [] v.t = "string" -> StringToNumber(v.s)
      [] v.t = "boolean" -> JNum(v.n)
      [] v.t = "null" -> JNum(0)
      [] OTHER -> JNaN

\* Number.isFinite(x)
IsFinite(v) == v.t = "number" /\ v.k = "finite"

(***************************************************************************)
(* The footer year block                                                   *)
(***************************************************************************)
\* A variant of getFullYear below: the deprecated getYear.
getYearSince1900(d) == d.year - 1900

\* Date.prototype.getFullYear on new Date()
getFullYear(d) == d.year

InitFooter ==
    /\ now = ClockStart
    /\ hasYear \in BOOLEAN
    /\ yearText \in {<<>>, <<"2", "0", "2", "4">>}
    /\ footerPc = "load"
    /\ EscapeUnused
    /\ MapUnused
    /\ FormUnused

\* A month passes.
Tick ==
    /\ now.month < 12 \/ now.year < MaxYear
    /\ now' = IF now.month = 12 THEN [year |-> now.year + 1, month |-> 1]
              ELSE [now EXCEPT !.month = now.month + 1]
    /\ UNCHANGED <<hasYear, yearText, footerPc>>
    /\ UNCHANGED <<escVars, mapVars, formVars>>

\* The footer block: if (y) y.textContent = new Date().getFullYear()
FooterBlock ==
    /\ footerPc = "load"
    /\ IF hasYear
       THEN yearText' = JsString(JNum(getFullYear(now)))
       ELSE UNCHANGED yearText
    /\ footerPc' = "done"
    /\ UNCHANGED <<now, hasYear>>
    /\ UNCHANGED <<escVars, mapVars, formVars>>

NextFooter == Tick \/ FooterBlock

SpecFooter == InitFooter /\ [][NextFooter]_vars

\* The four decimal digits of a year.
FourDigits(y) ==
    <<DigitChar(y \div 1000), DigitChar((y \div 100) % 10),
      DigitChar((y \div 10) % 10), DigitChar(y % 10)>>

\* C7: when the page has the year element, the step of the footer block leaves
\* in it the calendar year the clock shows at that step; when it has none, the
\* step changes neither the text nor anything else of the footer.
C7_FooterShowsCurrentYear ==
    [][(footerPc = "load" /\ footerPc' = "done") =>
          /\ hasYear => yearText' = FourDigits(now.year)
          /\ ~hasYear => yearText' = yearText
          /\ now' = now /\ hasYear' = hasYear]_vars

C7_Witness ==
    /\ footerPc = "done"
    /\ hasYear
    /\ now.year = 2026
    /\ yearText = <<"2", "0", "2", "6">>

(***************************************************************************)
(* The service form                                                        *)
(***************************************************************************)
\* The characters encodeURIComponent leaves alone: A-Z a-z 0-9 - _ . ! ~ * ' ( )
UriUnreserved ==
    {"A", "B", "C", "D", "E", "F", "G", "H", "I", "J", "K", "L", "M", "N", "O", "P",
     "Q", "R", "S", "T", "U", "V", "W", "X", "Y", "Z",
     "a", "b", "c", "d", "e", "f", "g", "h", "i", "j", "k", "l", "m", "n", "o", "p",
     "q", "r", "s", "t", "u", "v", "w", "x", "y", "z"}
    \cup Digits \cup {"-", "_", ".", "!", "~", "*", "'", "(", ")"}

\* A variant of the set below: what encodeURI leaves alone, which adds
\* ; / ? : @ & = + $ , #
EncodeUriUnescaped == UriUnreserved \cup {";", "/", "?", ":", "@", "&", "=", "+", "$", ",", "#"}

UriComponentUnescaped == UriUnreserved

\* The code points of the other characters the model uses.
CodePoint(c) ==
    CASE c = "\t" -> 9 [] c = "\n" -> 10 [] c = " " -> 32 [] c = "#" -> 35
      [] c = "%" -> 37 [] c = "&" -> 38 [] c = "+" -> 43 [] c = "/" -> 47
      [] c = ":" -> 58 [] c = "=" -> 61 [] c = "?" -> 63 [] c = "@" -> 64
      [] c = "[" -> 91 [] c = "]" -> 93 [] c = "U+2014" -> 8212

HexChar(d) ==
    CASE d < 10 -> DigitChar(d)
      [] d = 10 -> "A" [] d = 11 -> "B" [] d = 12 -> "C"
      [] d = 13 -> "D" [] d = 14 -> "E" [] d = 15 -> "F"

PercentByte(b) == <<"%", HexChar(b \div 16), HexChar(b % 16)>>

\* The UTF-8 bytes of a code point of the basic plane.
Utf8(cp) ==
    IF cp < 128 THEN <<cp>>
    ELSE IF cp < 2048 THEN <<192 + (cp \div 64), 128 + (cp % 64)>>
    ELSE <<224 + (cp \div 4096), 128 + ((cp \div 64) % 64), 128 + (cp % 64)>>

RECURSIVE PercentBytes(_)
PercentBytes(bs) ==
    IF bs = <<>> THEN <<>> ELSE PercentByte(Head(bs)) \o PercentBytes(Tail(bs))

RECURSIVE encodeURIComponent(_)
encodeURIComponent(s) ==
    IF s = <<>> THEN <<>>
    ELSE (IF Head(s) \in UriComponentUnescaped THEN <<Head(s)>>
          ELSE PercentBytes(Utf8(CodePoint(Head(s)))))
         \o encodeURIComponent(Tail(s))

\* (data.get(k) || '').toString().trim()
FieldText(v) == trim(JsString(JsOr(v, JStr(<<>>))))

\* A variant of the test below that does not look at message.
MissingIgnoresMessage(name, phone, email, message) ==
    name = <<>> \/ phone = <<>> \/ email = <<>>

\* if (!name || !phone || !email || !message)
Missing(name, phone, email, message) ==
    name = <<>> \/ phone = <<>> \/ email = <<>> \/ message = <<>>

\* The subject template literal.
SubjectText(name, phone) ==
    <<"[", "S", "e", "r", "v", "i", "c", "e", " ", "R", "e", "q", "u", "e", "s", "t", "]", " ">>
    \o name \o <<" ", "U+2014", " ">> \o phone

\* The body template literal.
BodyText(name, phone, email, address, message) ==
    <<"N", "a", "m", "e", ":", " ">> \o name
    \o <<"\n", "P", "h", "o", "n", "e", ":", " ">> \o phone
    \o <<"\n", "E", "m", "a", "i", "l", ":", " ">> \o email
    \o <<"\n", "A", "d", "d", "r", "e", "s", "s", ":", " ">> \o address
    \o <<"\n", "\n", "I", "s", "s", "u", "e", ":", "\n">> \o message
    \o <<"\n">>

MailtoPrefix ==
    <<"m", "a", "i", "l", "t", "o", ":", "s", "e", "r", "v", "i", "c", "e", "@", "b", "e",
      "x", "a", "r", "m", "e", "c", "h", "a", "n", "i", "c", "a", "l", ".", "c", "o", "m",
      "?", "s", "u", "b", "j", "e", "c", "t", "=">>

BodyParam == <<"&", "b", "o", "d", "y", "=">>

\* The value assigned to form.action.
MailtoUrl(name, phone, email, address, message) ==
    MailtoPrefix \o encodeURIComponent(SubjectText(name, phone))
    \o BodyParam \o encodeURIComponent(BodyText(name, phone, email, address, message))

\* The values a visitor gives each control.
StringSamples(f) ==
    CASE f = "name" -> {<<>>, <<" ">>, <<" ", "a", " ", "&", "\n">>, <<"U+2014">>}
      [] f = "phone" -> {<<>>, <<"\t", "5", "+">>}
      [] f = "email" -> {<<>>, <<"a", "@", "b">>}
      [] f = "address" -> {<<>>, <<" ">>, <<"1", " ", "/", "2">>}
      [] f = "message" -> {<<>>, <<"\n">>, <<"h", "i", "\n", "=", "?", " ">>}

\* The page as loaded: each control is there, empty, or is not there.
InitForm ==
    /\ fields \in [FieldNames -> {JNull, JStr(<<>>)}]
    /\ formAction = InitialAction
    /\ submitEv = NoEvent
    /\ lastAccepted = [any |-> FALSE, data |-> NoData]
    /\ EscapeUnused
    /\ MapUnused
    /\ FooterUnused

\* The visitor edits a control; new FormData(form) reads the values at submit.
EditField ==
    /\ \E f \in FieldNames : \E s \in StringSamples(f) :
          /\ fields[f] # JNull
          /\ fields[f] # JStr(s)
          /\ fields' = [fields EXCEPT ![f] = JStr(s)]
    /\ submitEv' = NoEvent
    /\ UNCHANGED <<formAction, lastAccepted>>
    /\ UNCHANGED <<escVars, mapVars, footerVars>>

\* A variant of the listener that assigns form.action before it validates.
SubmitAssignsBeforeValidating ==
    LET name == FieldText(fields["name"])
        phone == FieldText(fields["phone"])
        email == FieldText(fields["email"])
        address == FieldText(fields["address"])
        message == FieldText(fields["message"])
    IN  /\ formAction' = MailtoUrl(name, phone, email, address, message)
        /\ IF Missing(name, phone, email, message)
           THEN /\ submitEv' = [kind |-> "rejected", alerts |-> 1, prevented |-> TRUE]
                /\ UNCHANGED lastAccepted
           ELSE /\ submitEv' = [kind |-> "accepted", alerts |-> 0, prevented |-> FALSE]
                /\ lastAccepted' = [any |-> TRUE, data |-> fields]
        /\ UNCHANGED fields
        /\ UNCHANGED <<escVars, mapVars, footerVars>>

\* The submit listener.
Submit ==
    LET name == FieldText(fields["name"])
        phone == FieldText(fields["phone"])
        email == FieldText(fields["email"])
        address == FieldText(fields["address"])
        message == FieldText(fields["message"])
    IN  /\ IF Missing(name, phone, email, message)
           THEN /\ submitEv' = [kind |-> "rejected", alerts |-> 1, prevented |-> TRUE]
                /\ UNCHANGED <<formAction, lastAccepted>>
           ELSE /\ formAction' = MailtoUrl(name, phone, email, address, message)
                /\ submitEv' = [kind |-> "accepted", alerts |-> 0, prevented |-> FALSE]
                /\ lastAccepted' = [any |-> TRUE, data |-> fields]
        /\ UNCHANGED fields
        /\ UNCHANGED <<escVars, mapVars, footerVars>>

NextForm == EditField \/ Submit

SpecForm == InitForm /\ [][NextForm]_vars

(***************************************************************************)
(* The map block                                                           *)
(***************************************************************************)
\* What an element of the fetched array can be: an object with the four
\* fields (a field the JSON leaves out reads as undefined), null, or a
\* number, whose properties all read as undefined.
Rec(lat, lng, title, note) ==
    [t |-> "object", lat |-> lat, lng |-> lng, title |-> title, note |-> note]

NullRec ==
    [t |-> "null", lat |-> JUndefined, lng |-> JUndefined,
     title |-> JUndefined, note |-> JUndefined]

NumberRec ==
    [t |-> "number", lat |-> JUndefined, lng |-> JUndefined,
     title |-> JUndefined, note |-> JUndefined]

PointsTruthy(points) == points.t \in {"array", "number", "object"}

\* map.setView(center, zoom)
SetView(center, zoom) ==
    [kind |-> "setView", center |-> center, zoom |-> zoom, bounds |-> <<>>, padding |-> <<>>]

\* map.fitBounds(bounds, {padding})
FitBounds(bounds, padding) ==
    [kind |-> "fitBounds", center |-> <<>>, zoom |-> 0, bounds |-> bounds, padding |-> padding]

\* The literals of the two setView calls: [29.512, -98.5], 10.
FallbackCenter == <<"29.512", "-98.5">>

FallbackZoom == 10

FitPadding == <<60, 60>>

WarnLeaflet == "Leaflet not loaded. Include Leaflet CSS/JS in index.html."

WarnLoad == "Could not load work_locations.json"

Min(a, b) == IF a < b THEN a ELSE b

Max(a, b) == IF a > b THEN a ELSE b

\* L.latLngBounds() is <<>>; bounds.extend(latlng) grows <<south, west, north, east>>.
Extend(bounds, latlng) ==
    IF bounds = <<>> THEN <<latlng[1], latlng[2], latlng[1], latlng[2]>>
    ELSE <<Min(bounds[1], latlng[1]), Min(bounds[2], latlng[2]),
           Max(bounds[3], latlng[1]), Max(bounds[4], latlng[2])>>

\* The template literal given to bindPopup.
PopupContent(p) ==
    <<"<", "s", "t", "r", "o", "n", "g", " ", "s", "t", "y", "l", "e", "=", "\"",
      "c", "o", "l", "o", "r", ":", "#", "0", "a", "3", "d", "9", "1", "\"", ">">>
    \o escapeHtml(JsOr(p.title, JStr(<<"J", "o", "b">>)))
    \o <<"<", "/", "s", "t", "r", "o", "n", "g", ">", "<", "b", "r", ">">>
    \o <<"<", "s", "m", "a", "l", "l", ">">>
    \o escapeHtml(JsOr(p.note, JStr(<<>>)))
    \o <<"<", "/", "s", "m", "a", "l", "l", ">">>

\* L.marker([lat, lng], {title}).addTo(map) with its popup bound.
Marker(p, lat, lng) ==
    [latlng |-> <<lat.n, lng.n>>,
     title |-> JsOr(p.title, JStr(<<"J", "o", "b", " ", "l", "o", "c", "a", "t", "i", "o", "n">>)),
     popup |-> PopupContent(p)]

\* The state of the then-callback: the markers added so far, the bounds, and
\* whether an exception has left the callback.
LoopStart == [markers |-> <<>>, bounds |-> <<>>, threw |-> FALSE]

\* The forEach callback on one element.  Reading p.lat of null throws a
\* TypeError, which ends the loop and the then-callback.
PlaceIfFinite(acc, p) ==
    IF p.t = "null" THEN [acc EXCEPT !.threw = TRUE]
    ELSE LET lat == ToNumber(p.lat)
             lng == ToNumber(p.lng)
         IN  IF ~IsFinite(lat) \/ ~IsFinite(lng) THEN acc
             ELSE [markers |-> Append(acc.markers, Marker(p, lat, lng)),
                   bounds |-> Extend(acc.bounds, <<lat.n, lng.n>>),
                   threw |-> FALSE]

RECURSIVE ForEach(_, _)
ForEach(items, acc) ==
    IF items = <<>> \/ acc.threw THEN acc
    ELSE ForEach(Tail(items), PlaceIfFinite(acc, Head(items)))

\* (points || []).forEach(...): a truthy value that is no array has no
\* forEach, and calling it throws a TypeError.
RunLoop(points) ==
    IF ~PointsTruthy(points) THEN LoopStart
    ELSE IF points.t # "array" THEN [LoopStart EXCEPT !.threw = TRUE]
    ELSE ForEach(points.items, LoopStart)

LatSamples ==
    {JNum(29), JStr(<<"3", "0">>), JStr(<<"x">>), JNull, JUndefined, JInfinity}

LngSamples == {JNum(0 - 98), JStr(<<" ", "-", "9", "7">>), JUndefined}

TextSamples ==
    {<<JUndefined, JUndefined>>, <<JStr(<<"<", "b", ">">>), JStr(<<"a", "&", "'">>)>>}

RecSamples ==
    {Rec(lat, lng, tx[1], tx[2]) : lat \in LatSamples, lng \in LngSamples, tx \in TextSamples}
    \cup {NullRec, NumberRec}

PointsSamples ==
    {Points("array", items) : items \in StringsUpTo(RecSamples, MaxPoints)}
    \cup {Points("null", <<>>), Points("zero", <<>>), Points("number", <<>>),
          Points("object", <<>>)}

InitMap ==
    /\ hasMapEl \in BOOLEAN
    /\ leaflet \in BOOLEAN
    /\ mapPc = "load"
    /\ mapCreated = FALSE
    /\ tileLayers = 0
    /\ fetchCount = 0
    /\ fetched = NotFetched
    /\ markers = <<>>
    /\ view = NoView
    /\ viewCalls = <<>>
    /\ console = <<>>
    /\ EscapeUnused
    /\ FooterUnused
    /\ FormUnused

\* A variant of the block below without the test of the work-map element.
MapBlockWithoutElementGuard ==
    /\ mapPc = "load"
    /\ IF ~leaflet
       THEN /\ console' = Append(console, WarnLeaflet)
            /\ mapPc' = "skipped"
            /\ UNCHANGED <<mapCreated, tileLayers, fetchCount>>
       ELSE /\ mapCreated' = TRUE
            /\ tileLayers' = tileLayers + 1
            /\ fetchCount' = fetchCount + 1
            /\ mapPc' = "fetching"
            /\ UNCHANGED console
    /\ UNCHANGED <<hasMapEl, leaflet, fetched, markers, view, viewCalls>>
    /\ UNCHANGED <<escVars, footerVars, formVars>>

\* The map block up to the call of fetch.
MapBlock ==
    /\ mapPc = "load"
    /\ IF ~hasMapEl
       THEN /\ mapPc' = "skipped"
            /\ UNCHANGED <<mapCreated, tileLayers, fetchCount, console>>
       ELSE IF ~leaflet
       THEN /\ console' = Append(console, WarnLeaflet)
            /\ mapPc' = "skipped"
            /\ UNCHANGED <<mapCreated, tileLayers, fetchCount>>
       ELSE /\ mapCreated' = TRUE
            /\ tileLayers' = tileLayers + 1
            /\ fetchCount' = fetchCount + 1
            /\ mapPc' = "fetching"
            /\ UNCHANGED console
    /\ UNCHANGED <<hasMapEl, leaflet, fetched, markers, view, viewCalls>>
    /\ UNCHANGED <<escVars, footerVars, formVars>>

\* A variant of the catch handler below that warns and sets no view.
CatchOnlyWarns ==
    /\ console' = Append(console, WarnLoad)
    /\ UNCHANGED <<view, viewCalls>>

\* The catch handler.
CatchFallback ==
    /\ console' = Append(console, WarnLoad)
    /\ view' = SetView(FallbackCenter, FallbackZoom)
    /\ viewCalls' = Append(viewCalls, "setView")

\* fetch rejects: neither then-callback runs, the catch handler does.
FetchRejected ==
    /\ mapPc = "fetching"
    /\ fetched' = [outcome |-> "rejected", points |-> Points("null", <<>>)]
    /\ CatchFallback
    /\ mapPc' = "settled"
    /\ UNCHANGED <<hasMapEl, leaflet, mapCreated, tileLayers, fetchCount, markers>>
    /\ UNCHANGED <<escVars, footerVars, formVars>>

\* r.json() rejects (the body is no JSON): the catch handler runs.
JsonRejected ==
    /\ mapPc = "fetching"
    /\ fetched' = [outcome |-> "badjson", points |-> Points("null", <<>>)]
    /\ CatchFallback
    /\ mapPc' = "settled"
    /\ UNCHANGED <<hasMapEl, leaflet, mapCreated, tileLayers, fetchCount, markers>>
    /\ UNCHANGED <<escVars, footerVars, formVars>>

\* The then-callback on the parsed points, and the catch handler when it throws.
\* The markers added before an exception stay on the map.
ThenPoints(points) ==
    LET r == RunLoop(points) IN
    /\ markers' = markers \o r.markers
    /\ IF r.threw THEN CatchFallback
       ELSE IF Len(r.markers) # 0
       THEN /\ view' = FitBounds(r.bounds, FitPadding)
            /\ viewCalls' = Append(viewCalls, "fitBounds")
            /\ UNCHANGED console
       ELSE /\ view' = SetView(FallbackCenter, FallbackZoom)
            /\ viewCalls' = Append(viewCalls, "setView")
            /\ UNCHANGED console

FetchResolved ==
    /\ mapPc = "fetching"
    /\ \E points \in PointsSamples :
          /\ fetched' = [outcome |-> "ok", points |-> points]
          /\ ThenPoints(points)
    /\ mapPc' = "settled"
    /\ UNCHANGED <<hasMapEl, leaflet, mapCreated, tileLayers, fetchCount>>
    /\ UNCHANGED <<escVars, footerVars, formVars>>

NextMap == MapBlock \/ FetchRejected \/ JsonRejected \/ FetchResolved

SpecMap == InitMap /\ [][NextMap]_vars

(***************************************************************************)
(* Properties of the map block                                             *)
(***************************************************************************)
\* A record passes the check of the loop when Number(p.lat) and Number(p.lng)
\* are both finite; null has no lat and no lng.
Passes(p) == p.t # "null" /\ IsFinite(ToNumber(p.lat)) /\ IsFinite(ToNumber(p.lng))

LatLngOf(p) == <<ToNumber(p.lat).n, ToNumber(p.lng).n>>

RECURSIVE BoundsOf(_)
BoundsOf(ms) ==
    IF ms = <<>> THEN <<>>
    ELSE Extend(BoundsOf(SubSeq(ms, 1, Len(ms) - 1)), ms[Len(ms)].latlng)

\* C1: once the continuation has run on a fetched list, the markers on the map
\* are exactly the records of the list whose two coordinates are finite, one
\* marker each and in list order, and the other records were skipped without a
\* warning or an error.
C1_MarkersAreThePassingRecords ==
    (mapPc = "settled" /\ fetched.outcome = "ok" /\ fetched.points.t = "array") =>
        LET pass == SelectSeq(fetched.points.items, Passes) IN
        /\ Len(markers) = Len(pass)
        /\ \A i \in 1..Len(pass) : i <= Len(markers) => markers[i].latlng = LatLngOf(pass[i])
        /\ console = <<>>

\* The fetch delivered nothing that can be plotted: it failed, the body was no
\* JSON, the value is no list, or no record of the list passes the check.
NothingPlottable ==
    \/ fetched.outcome \in {"rejected", "badjson"}
    \/ /\ fetched.outcome = "ok"
       /\ \/ fetched.points.t # "array"
          \/ \A i \in 1..Len(fetched.points.items) : ~Passes(fetched.points.items[i])

\* C2: when the fetch yields no plottable marker, the view ends up at
\* [29.512, -98.5] with zoom 10 and fitBounds was never called.
C2_FallbackWhenNothingPlottable ==
    (mapPc = "settled" /\ (NothingPlottable \/ markers = <<>>)) =>
        /\ view.kind = "setView"
        /\ view.center = <<"29.512", "-98.5">>
        /\ view.zoom = 10
        /\ \A i \in 1..Len(viewCalls) : viewCalls[i] # "fitBounds"
        /\ markers = <<>>

C2_Witness ==
    /\ mapPc = "settled"
    /\ fetched.outcome = "ok"
    /\ fetched.points.t = "array"
    /\ Len(fetched.points.items) = 2
    /\ fetched.points.items[1].t = "object"
    /\ NothingPlottable
    /\ view.kind = "setView"

\* C6: once the fetch has settled, either there are markers on the map and the
\* view is fitted to their bounds, or the view is the fallback and no marker is
\* on the map; never markers together with the fallback view.
C6_PopulatesOrFallsBack ==
    mapPc = "settled" =>
        \/ /\ Len(markers) >= 1
           /\ view = FitBounds(BoundsOf(markers), <<60, 60>>)
           /\ viewCalls = <<"fitBounds">>
        \/ /\ markers = <<>>
           /\ view = SetView(<<"29.512", "-98.5">>, 10)
           /\ viewCalls = <<"setView">>

\* C10: without the work-map element or without Leaflet the block creates no
\* map, issues no fetch, places no marker and sets no view, and warns only when
\* it is Leaflet that is missing; otherwise it issues exactly one fetch, and
\* none is added after the fetch has settled, failed or not.
C10_GuardsAndSingleFetch ==
    /\ (mapPc # "load" /\ (~hasMapEl \/ ~leaflet)) =>
          /\ ~mapCreated
          /\ tileLayers = 0
          /\ fetchCount = 0
          /\ markers = <<>>
          /\ view = NoView
          /\ viewCalls = <<>>
          /\ console = IF hasMapEl THEN <<WarnLeaflet>> ELSE <<>>
    /\ (mapPc # "load" /\ hasMapEl /\ leaflet) =>
          /\ mapCreated
          /\ fetchCount = 1

C10_Witness ==
    /\ mapPc = "skipped"
    /\ hasMapEl
    /\ ~leaflet
    /\ console = <<WarnLeaflet>>
    /\ fetchCount = 0

\* Every popup on the map is the fixed markup of the template around two
\* texts, and neither text holds a raw < > " ' / ` or =.
PopupsAreInert ==
    \A i \in 1..Len(markers) :
        LET html == markers[i].popup
            open == <<"<", "s", "t", "r", "o", "n", "g", " ", "s", "t", "y", "l", "e", "=",
                      "\"", "c", "o", "l", "o", "r", ":", "#", "0", "a", "3", "d", "9", "1",
                      "\"", ">">>
            mid == <<"<", "/", "s", "t", "r", "o", "n", "g", ">", "<", "b", "r", ">",
                     "<", "s", "m", "a", "l", "l", ">">>
            close == <<"<", "/", "s", "m", "a", "l", "l", ">">>
            Inert(t) == \A k \in 1..Len(t) :
                           t[k] \notin {"<", ">", "\"", "'", "/", "U+0060", "="}
        IN  \E a \in 0..Len(html) : \E b \in 0..Len(html) :
               /\ Len(html) = Len(open) + a + Len(mid) + b + Len(close)
               /\ html = open \o SubSeq(html, Len(open) + 1, Len(open) + a) \o mid
                         \o SubSeq(html, Len(open) + a + Len(mid) + 1,
                                   Len(open) + a + Len(mid) + b) \o close
               /\ Inert(SubSeq(html, Len(open) + 1, Len(open) + a))
               /\ Inert(SubSeq(html, Len(open) + a + Len(mid) + 1,
                               Len(open) + a + Len(mid) + b))

(***************************************************************************)
(* Calls of escapeHtml on its own.                                         *)
(***************************************************************************)
EscChars == {"&", "<", ">", "\"", "'", "U+0060", "=", "/", "a", ";", "#"}

EscInputs ==
    {JStr(s) : s \in StringsUpTo(EscChars, MaxEscLen)}
    \cup {JNull, JUndefined, JNum(0), JNum(5), JNaN, JBool(FALSE), JBool(TRUE), JObject}

InitEscape ==
    /\ escIn \in EscInputs
    /\ escOut = <<>>
    /\ escPc = "ready"
    /\ MapUnused
    /\ FooterUnused
    /\ FormUnused

CallEscapeHtml ==
    /\ escPc = "ready"
    /\ escOut' = escapeHtml(escIn)
    /\ escPc' = "returned"
    /\ UNCHANGED escIn
    /\ UNCHANGED <<mapVars, footerVars, formVars>>

NextEscape == CallEscapeHtml

SpecEscape == InitEscape /\ [][NextEscape]_vars

(***************************************************************************)
(* Properties of escapeHtml                                                *)
(***************************************************************************)
\* What each character is to become: the eight characters their entities,
\* every other character itself.
ImageOf(c) ==
    CASE c = "&" -> <<"&", "a", "m", "p", ";">>
      [] c = "<" -> <<"&", "l", "t", ";">>
      [] c = ">" -> <<"&", "g", "t", ";">>
      [] c = "\"" -> <<"&", "q", "u", "o", "t", ";">>
      [] c = "'" -> <<"&", "#", "3", "9", ";">>
      [] c = "/" -> <<"&", "#", "x", "2", "F", ";">>
      [] c = "U+0060" -> <<"&", "#", "x", "6", "0", ";">>
      [] c = "=" -> <<"&", "#", "x", "3", "D", ";">>
      [] OTHER -> <<c>>

\* Where the image of the i-th character starts in the output.
RECURSIVE OffsetOf(_, _)
OffsetOf(str, i) ==
    IF i = 1 THEN 1 ELSE OffsetOf(str, i - 1) + Len(ImageOf(str[i - 1]))

\* C5: for an input string, the output is the input with each of the eight
\* characters replaced by its entity and every other character kept, in order.
C5_EachCharacterMapped ==
    (escPc = "returned" /\ escIn.t = "string") =>
        LET str == escIn.s IN
        /\ Len(escOut) = OffsetOf(str, Len(str) + 1) - 1
        /\ \A i \in 1..Len(str) :
              SubSeq(escOut, OffsetOf(str, i), OffsetOf(str, i + 1) - 1) = ImageOf(str[i])

C5_Witness ==
    /\ escPc = "returned"
    /\ escIn = JStr(<<"<", "a", "U+0060">>)
    /\ escOut = <<"&", "l", "t", ";", "a", "&", "#", "x", "6", "0", ";">>

TheEightEntities ==
    {ImageOf(c) : c \in {"&", "<", ">", "\"", "'", "/", "U+0060", "="}}

\* C9: the output holds none of < > " ' / ` =, every & of the output starts one
\* of the eight entities, and a falsy input gives the empty string.
C9_OutputIsInert ==
    escPc = "returned" =>
        /\ \A i \in 1..Len(escOut) :
              escOut[i] \notin {"<", ">", "\"", "'", "/", "U+0060", "="}
        /\ \A i \in 1..Len(escOut) :
              escOut[i] = "&" =>
                 \E e \in TheEightEntities :
                    /\ i + Len(e) - 1 <= Len(escOut)
                    /\ SubSeq(escOut, i, i + Len(e) - 1) = e
        /\ escIn \in {JNull, JUndefined, JStr(<<>>), JNum(0), JBool(FALSE)} => escOut = <<>>

C9_Witness ==
    /\ escPc = "returned"
    /\ escIn = JStr(<<"&", "U+0060", ";">>)
    /\ escOut = <<"&", "a", "m", "p", ";", "&", "#", "x", "6", "0", ";", ";">>

(***************************************************************************)
(* Properties of the service form                                          *)
(***************************************************************************)
MinOf(S) == CHOOSE x \in S : \A y \in S : x <= y

MaxOf(S) == CHOOSE x \in S : \A y \in S : x >= y

\* The value of a control without its surrounding white space; a control that
\* is not there has the empty value.
TrimmedOf(v) ==
    IF v.t # "string" THEN <<>>
    ELSE LET idx == {i \in 1..Len(v.s) : v.s[i] \notin {" ", "\n", "\t"}}
         IN  IF idx = {} THEN <<>> ELSE SubSeq(v.s, MinOf(idx), MaxOf(idx))

\* One of name, phone, email and message is empty.
RequiredMissing(data) ==
    \E f \in {"name", "phone", "email", "message"} : TrimmedOf(data[f]) = <<>>

HexValue(c) == CHOOSE d \in 0..15 : HexChar(d) = c

ByteAt(s, i) == 16 * HexValue(s[i + 1]) + HexValue(s[i + 2])

EscapedChars == {"\t", "\n", " ", "#", "%", "&", "+", "/", ":", "=", "?", "@", "[", "]", "U+2014"}

CharOf(cp) == CHOOSE c \in EscapedChars : CodePoint(c) = cp

\* Percent-decoding: the text a mail client reads out of a query value.
RECURSIVE UriDecode(_)
UriDecode(s) ==
    IF s = <<>> THEN <<>>
    ELSE IF Head(s) # "%" THEN <<Head(s)>> \o UriDecode(Tail(s))
    ELSE LET b == ByteAt(s, 1) IN
         IF b < 128 THEN <<CharOf(b)>> \o UriDecode(SubSeq(s, 4, Len(s)))
         ELSE IF b < 224
         THEN <<CharOf((b - 192) * 64 + (ByteAt(s, 4) - 128))>>
              \o UriDecode(SubSeq(s, 7, Len(s)))
         ELSE <<CharOf((b - 224) * 4096 + (ByteAt(s, 4) - 128) * 64 + (ByteAt(s, 7) - 128))>>
              \o UriDecode(SubSeq(s, 10, Len(s)))

\* Only characters a query value may hold as they are, and whole %XX triples.
WellEncoded(s) ==
    /\ \A i \in 1..Len(s) : s[i] \in UriUnreserved \cup {"%"}
    /\ \A i \in 1..Len(s) :
          s[i] = "%" =>
             /\ i + 2 <= Len(s)
             /\ s[i + 1] \in Digits \cup {"A", "B", "C", "D", "E", "F"}
             /\ s[i + 2] \in Digits \cup {"A", "B", "C", "D", "E", "F"}

\* url is mailto:service@bexarmechanical.com?subject=S&body=B, where S and B
\* are URL-encoded, S reads "[Service Request] <name> - <phone>" (with the em
\* dash) and B reads the five labelled, trimmed values of data.
IsMailtoFor(url, data) ==
    LET pre == <<"m", "a", "i", "l", "t", "o", ":", "s", "e", "r", "v", "i", "c", "e", "@",
                 "b", "e", "x", "a", "r", "m", "e", "c", "h", "a", "n", "i", "c", "a", "l",
                 ".", "c", "o", "m", "?", "s", "u", "b", "j", "e", "c", "t", "=">>
        rest == SubSeq(url, Len(pre) + 1, Len(url))
        amps == {i \in 1..Len(rest) : rest[i] = "&"}
        a == MinOf(amps)
        S == SubSeq(rest, 1, a - 1)
        B == SubSeq(rest, a + 6, Len(rest))
        name == TrimmedOf(data["name"])
        phone == TrimmedOf(data["phone"])
        email == TrimmedOf(data["email"])
        address == TrimmedOf(data["address"])
        message == TrimmedOf(data["message"])
    IN  /\ Len(url) >= Len(pre)
        /\ SubSeq(url, 1, Len(pre)) = pre
        /\ Cardinality(amps) = 1
        /\ SubSeq(rest, a, a + 5) = <<"&", "b", "o", "d", "y", "=">>
        /\ WellEncoded(S)
        /\ WellEncoded(B)
        /\ UriDecode(S) =
              <<"[", "S", "e", "r", "v", "i", "c", "e", " ", "R", "e", "q", "u", "e", "s",
                "t", "]", " ">> \o name \o <<" ", "U+2014", " ">> \o phone
        /\ UriDecode(B) =
              <<"N", "a", "m", "e", ":", " ">> \o name
              \o <<"\n", "P", "h", "o", "n", "e", ":", " ">> \o phone
              \o <<"\n", "E", "m", "a", "i", "l", ":", " ">> \o email
              \o <<"\n", "A", "d", "d", "r", "e", "s", "s", ":", " ">> \o address
              \o <<"\n", "\n", "I", "s", "s", "u", "e", ":", "\n">> \o message \o <<"\n">>

\* C3: a submit with one of name, phone, email, message empty (after trimming,
\* or absent) shows the alert once and is prevented; an empty address on its
\* own does not prevent a submit.
C3_MissingFieldBlocksSubmit ==
    submitEv.kind # "none" =>
        /\ RequiredMissing(fields) => (submitEv.alerts = 1 /\ submitEv.prevented)
        /\ (~RequiredMissing(fields) /\ TrimmedOf(fields["address"]) = <<>>) =>
              ~submitEv.prevented

C3_Witness ==
    /\ submitEv.kind = "rejected"
    /\ fields["name"] = JStr(<<" ", "a", " ", "&", "\n">>)
    /\ fields["phone"] = JStr(<<"\t", "5", "+">>)
    /\ fields["email"] = JStr(<<"a", "@", "b">>)
    /\ fields["message"] = JStr(<<"\n">>)
    /\ submitEv.alerts = 1

\* C4: a submit with name, phone, email and message all non-empty shows no
\* alert, is not prevented, and leaves in form.action the mailto URL of the
\* values of that very submit.
C4_AcceptedSubmitBuildsMailto ==
    (submitEv.kind # "none" /\ ~RequiredMissing(fields)) =>
        /\ submitEv.alerts = 0
        /\ ~submitEv.prevented
        /\ IsMailtoFor(formAction, fields)

C4_Witness ==
    /\ submitEv.kind = "accepted"
    /\ submitEv.alerts = 0
    /\ fields["name"] = JStr(<<" ", "a", " ", "&", "\n">>)
    /\ fields["address"] = JStr(<<"1", " ", "/", "2">>)
    /\ formAction # <<"#">>

\* C8: form.action is its initial value until a submit is accepted and from
\* then on the mailto URL of the most recent accepted submit, so a rejected
\* submit leaves it as it was; and a rejected submit is prevented also after
\* an accepted one.
C8_RejectedSubmitKeepsAction ==
    /\ ~lastAccepted.any => formAction = <<"#">>
    /\ lastAccepted.any => IsMailtoFor(formAction, lastAccepted.data)
    /\ submitEv.kind = "rejected" => submitEv.prevented

C8_Witness ==
    /\ submitEv.kind = "rejected"
    /\ submitEv.prevented
    /\ lastAccepted.any
    /\ lastAccepted.data # fields
    /\ formAction # <<"#">>

====
